---- MODULE Spec2Model ----
(***************************************************************************)
(* Model of the undermoon proxy: the slot-migration tasks                  *)
(* (src/src/migration/redis_task.rs), the command retry loops              *)
(* (src/src/common/resp_execution.rs) and the session pipeline             *)
(* (src/src/proxy/session.rs).                                             *)
(*                                                                         *)
(* Spec      : one run of a RedisMigratingTask on the source proxy, with   *)
(*             client threads calling MigratingTask::send concurrently     *)
(*             and the destination answering UMCTL TMPSWITCH.              *)
(* FairSpec  : Spec plus the fairness the executor gives a spawned future. *)
(* LifeSpec  : the same task started and stopped repeatedly.               *)
(* StopSpec  : one start of both tasks, stopped and dropped at any time.   *)
(* CallSpec  : the same with redundant start and stop calls.               *)
(* ImpSpec   : the RedisImportingTask of the destination proxy.            *)
(* SessSpec  : one client session running handle_session.                  *)
(***************************************************************************)
EXTENDS Integers, Sequences, FiniteSets, TLC

(* ------------------------------ bounds -------------------------------- *)
\* client commands offered to MigratingTask::send in one behaviour
MaxCmds == 2
\* configured min_blocking_time ranges over 0..MaxMinBlocking (ms)
MaxMinBlocking == 1
\* configured max_blocking_time ranges over 0..MaxMaxBlocking (ms)
MaxMaxBlocking == 1
\* calls of start that are accepted in one behaviour of LifeSpec
MaxStarts == 2
\* commands offered to ImportingTask::send in one behaviour
MaxImpCmds == 2
\* calls of ImportingTask::commit in one behaviour of ImpSpec
MaxCommits == 2
\* replica rows in one INFO REPLICATION reply, and the largest lag
MaxRows == 2
MaxLag == 1
\* configured lag_threshold ranges over 0..MaxLagThreshold
MaxLagThreshold == 1
\* items the client side of a session delivers in one behaviour
MaxReqs == 4
\* configured session_batch_buf ranges over 1..MaxBatchBuf
MaxBatchBuf == 3
MaxExecs == 3
MaxCreates == 4

(* ----------------------------- constants ------------------------------ *)
\* cmp::min(min_blocking_time, Duration::from_millis(5))
PollCapMillis == 5

TransferringData == "TransferringData"
PreSwitch == "PreSwitch"
SwitchStarted == "SwitchStarted"
SwitchCommitted == "SwitchCommitted"
MigrationState == {TransferringData, PreSwitch, SwitchStarted, SwitchCommitted}
StateOrder == <<TransferringData, PreSwitch, SwitchStarted, SwitchCommitted>>

\* the version compiled into the destination proxy, and a different one
SERVER_PROXY_VERSION == "0.4.0"
Versions == {SERVER_PROXY_VERSION, "0.3.9"}

\* client threads of the source proxy calling send, and the thread that
\* polls the future returned by start
Senders == {"s1", "s2"}
RQ == "rq"
Procs == Senders \cup {RQ}

VARIABLES
    \* RedisMigratingTask
    state, blocking, redirection_stopped, stop_signal, cmd_task_queue,
    \* the future returned by RedisMigratingTask::start, and the configuration
    \* its release_queue closure captured
    min_blocking_time, max_blocking_time,
    fut, lasting_time, fold_tick,
    \* what the future returned by start has completed with, and how many
    \* calls took the stop signal sender since the task was started
    fut_ret, taken,
    \* position of each thread, the command it holds, the command of its call,
    \* its result, and what the task looked like when the call was made
    pc, held, cmd, ret, call_view,
    \* what the destination sender was handed, in order
    handed,
    \* RedisImportingTask
    imp_state, imp_stop_signal, imp_fut, imp_ret, imp_fut_ret, imp_taken,
    \* what ImportingTask::send handed to the redirection sender, the command
    \* it gave back, and the calls of ImportingTask::commit with their results
    imp_handed, imp_back, commit_trace,
    \* last result of start / stop on the migrating task
    api_ret,
    \* budgets of the environment (redundant_calls: does the supervisor call
    \* start on a running task and stop on a stopped one) and history
    cmds_left, starts_left, imp_cmds_left, redundant_calls, tmpswitch_tick, acked,
    state_trace

VARIABLES
    \* handle_session: its position, its configuration and its locals
    sess_pc, session_batch_buf, reqs, reply_receiver_list, replies,
    \* the reply_chan channel of each request, the bytes on the socket, the result
    reply_chan, written, sess_ret,
    \* history: items delivered, requests read, order of completion
    delivered, read_seq, done_order

sessVars == <<sess_pc, session_batch_buf, reqs, reply_receiver_list, replies, reply_chan,
              written, sess_ret, delivered, read_seq, done_order>>

VARIABLES
    \* the replication check seen with its replies: the reply of the master,
    \* the configured lag_threshold, what the parser and the handler made of
    \* the reply, and what the first reply was decoded to
    info_reply, cfg_lag_threshold, parse_result, repl_answer, first_kind

parseVars == <<info_reply, cfg_lag_threshold, parse_result, repl_answer, first_kind>>

VARIABLES
    \* keep_connecting_and_sending_cmd: its position, the client it holds (0
    \* for none), the clients created, the calls of execute and of the
    \* handler, the results of keep_sending_cmd, and what the environment
    \* still lets happen
    kc_pc, kc_client, created, exec_log, handler_log, ks_rets, execs_left, creates_left

retryVars == <<kc_pc, kc_client, created, exec_log, handler_log, ks_rets, execs_left,
               creates_left>>

auxVars == <<parseVars, retryVars>>

migVars == <<state, blocking, redirection_stopped, stop_signal, cmd_task_queue,
             min_blocking_time, max_blocking_time,
             fut, lasting_time, fold_tick, fut_ret, taken, pc, held, cmd, ret, call_view,
             handed, imp_state, imp_stop_signal, imp_fut, imp_ret, imp_fut_ret, imp_taken,
             imp_handed, imp_back, commit_trace,
             api_ret, cmds_left, starts_left, imp_cmds_left, redundant_calls,
             tmpswitch_tick, acked, state_trace>>

(* ------------------------- AtomicMigrationState ----------------------- *)
Rank(s) == CHOOSE i \in 1..4 : StateOrder[i] = s

\* a plain store, as a state atom without the floor would do
set_state_store(cur, new) == new

\* super::task::AtomicMigrationState::set_state: compare-and-swap with a
\* floor, the state never goes backwards
set_state(cur, new) == IF Rank(new) > Rank(cur) THEN new ELSE cur

Min(a, b) == IF a < b THEN a ELSE b

\* the states the migrating task went through, without repetitions
Track(new) == IF new = state THEN state_trace ELSE Append(state_trace, new)

(* --------------------------- INFO REPLICATION ------------------------- *)
\* a parsed row: does ip:port equal meta.dst_node_address, and its lag
ReplicaRows == [is_dst : BOOLEAN, lag : 0..MaxLag]

RowSeqs == UNION {[1..n -> ReplicaRows] : n \in 0..MaxRows}

\* what handle_func of check_repl_state can be given
ReplReplies == [kind : {"rows"}, rows : RowSeqs]
               \cup {[kind |-> k, rows |-> <<>>] : k \in {"parse_error", "not_utf8", "not_bulk"}}

replica_state_ready(states, threshold) ==
    \E i \in 1..Len(states) : states[i].is_dst /\ states[i].lag < threshold

\* TRUE when handle_func answers Err(RedisClientError::Done)
check_repl_done(reply, threshold) ==
    /\ reply.kind = "rows"
    /\ replica_state_ready(reply.rows, threshold)

\* the answers of handle_func over the replies and the configured thresholds
check_repl_outcomes ==
    {check_repl_done(reply, lag_threshold) :
        reply \in ReplReplies, lag_threshold \in 0..MaxLagThreshold}

(* ------------------------------- Init --------------------------------- *)
\* no command: the Err of try_recv, an empty local
NoCmd == 0
NoRet == [kind |-> "none", cmd |-> NoCmd]
NoView == [state |-> TransferringData, blocking |-> TRUE]

\* RedisMigratingTask::new and RedisImportingTask::new
MigInit ==
    /\ state = TransferringData
    /\ blocking = TRUE
    /\ redirection_stopped = FALSE
    /\ stop_signal = FALSE
    /\ cmd_task_queue = <<>>
    /\ min_blocking_time = 0
    /\ max_blocking_time = 0
    /\ fut = "none"
    /\ fut_ret = "none"
    /\ taken = 0
    /\ lasting_time = 0
    /\ fold_tick = 0
    /\ pc = [p \in Procs |-> "idle"]
    /\ held = [p \in Procs |-> NoCmd]
    /\ cmd = [s \in Senders |-> NoCmd]
    /\ ret = [s \in Senders |-> NoRet]
    /\ call_view = [s \in Senders |-> NoView]
    /\ handed = <<>>
    /\ imp_state = TransferringData
    /\ imp_stop_signal = FALSE
    /\ imp_fut = "none"
    /\ imp_ret = "none"
    /\ imp_fut_ret = "none"
    /\ imp_taken = 0
    /\ imp_handed = <<>>
    /\ imp_back = NoCmd
    /\ commit_trace = <<>>
    /\ api_ret = "none"
    /\ tmpswitch_tick = 0
    /\ acked = FALSE
    /\ state_trace = <<TransferringData>>

impVars == <<imp_state, imp_stop_signal, imp_fut, imp_ret, imp_fut_ret, imp_taken,
             imp_handed, imp_back, commit_trace, imp_cmds_left>>
futVars == <<fut_ret, taken>>
cfgVars == <<min_blocking_time, max_blocking_time, redundant_calls>>
sendVars == <<cmd, ret, call_view, cmds_left>>
taskVars == <<state, blocking, redirection_stopped, cmd_task_queue, state_trace>>

InDrain(p) == pc[p] \in {"drain_store", "drain_recv", "drain_send"}

(* ------------------- RedisMigratingTask::start / stop ----------------- *)
\* a take that leaves the sender in the slot
stop_signal_take_leaves(slot) == slot

\* the slot after AtomicOption::take: empty
stop_signal_take(slot) == FALSE

\* completes only when both sides are ready, as a join would
select_completes_join(signalled, phases_done) == signalled /\ phases_done

\* the select of start is ready when the receiver of the stop signal or
\* the future of the phases is
select_completes(signalled, phases_done) == signalled \/ phases_done

\* `.then(move |_| future::ok(()))`: whatever the select produced
start_then(select_result) == "Ok"

\* the new sender replaces the installed one, whose receiver is canceled
start_rejected_cancels(cur) == "done"

\* try_store on an occupied slot gives the new sender back: the future of
\* the running task keeps its receiver and its phases
start_rejected_fut(cur) == cur

\* start: the stop signal is installed, then commit_switch() is called to
\* build the commit phase, which stores SwitchStarted on the spot, and
\* release_queue() reads the two blocking times of the configuration; the
\* phases themselves run only when the future is polled.  A task is started
\* again only after the future of its previous start has completed.
start ==
    /\ ~InDrain(RQ)
    /\ api_ret # "Dropped"
    /\ IF stop_signal
       THEN /\ redundant_calls
            /\ api_ret' = "AlreadyStarted"
            /\ fut' = start_rejected_fut(fut)
            /\ UNCHANGED <<taskVars, stop_signal, lasting_time, fold_tick, pc,
                           starts_left, acked, cfgVars, futVars>>
       ELSE /\ starts_left > 0
            /\ fut_ret # "pending"
            /\ min_blocking_time' \in 0..MaxMinBlocking
            /\ max_blocking_time' \in 0..MaxMaxBlocking
            /\ UNCHANGED redundant_calls
            /\ stop_signal' = TRUE
            /\ state' = set_state(state, SwitchStarted)
            /\ state_trace' = Track(state')
            /\ fut' = "check"
            /\ fut_ret' = "pending"
            /\ taken' = 0
            /\ lasting_time' = 0
            /\ fold_tick' = 0
            /\ pc' = [pc EXCEPT ![RQ] = "idle"]
            /\ starts_left' = starts_left - 1
            /\ acked' = FALSE
            /\ api_ret' = "Started"
            /\ UNCHANGED <<blocking, redirection_stopped, cmd_task_queue>>
    /\ UNCHANGED <<held, sendVars, handed, impVars, tmpswitch_tick>>

\* send_stop_signal with the sender in the slot: take() it and send; the
\* phases are polled no more.  A drain that is running finishes its loop.
send_stop_signal ==
    /\ stop_signal' = stop_signal_take(stop_signal)
    /\ taken' = Min(taken + 1, 2)
    /\ fut' = "done"
    /\ pc' = [pc EXCEPT ![RQ] = IF InDrain(RQ) THEN pc[RQ] ELSE "idle"]
    /\ lasting_time' = 0
    /\ fold_tick' = 0
    /\ min_blocking_time' = 0
    /\ max_blocking_time' = 0
    /\ UNCHANGED <<redundant_calls, fut_ret>>

\* stop -> send_stop_signal
stop ==
    /\ api_ret # "Dropped"
    /\ IF stop_signal
       THEN /\ send_stop_signal
            /\ api_ret' = "Stopped"
       ELSE /\ redundant_calls
            /\ api_ret' = "AlreadyEnded"
            /\ UNCHANGED <<stop_signal, fut, pc, lasting_time, fold_tick, cfgVars, futVars>>
    /\ UNCHANGED <<taskVars, held, sendVars, handed, impVars, tmpswitch_tick,
                   acked, starts_left>>

\* Drop for RedisMigratingTask: send_stop_signal().unwrap_or(()).  No call
\* on the task is in progress and none follows.
drop_task ==
    /\ api_ret # "Dropped"
    /\ \A s \in Senders : pc[s] = "idle"
    /\ api_ret' = "Dropped"
    /\ IF stop_signal
       THEN send_stop_signal
       ELSE UNCHANGED <<stop_signal, fut, pc, lasting_time, fold_tick, cfgVars, futVars>>
    /\ UNCHANGED <<taskVars, held, sendVars, handed, impVars, tmpswitch_tick,
                   acked, starts_left>>

\* a poll of the future returned by start after the stop signal was sent:
\* the select finds the receiver ready and the future completes
select_stop ==
    /\ fut_ret = "pending"
    /\ ~InDrain(RQ)
    /\ select_completes(fut = "done", fut = "switch_done" /\ pc[RQ] = "done")
    /\ fut_ret' = start_then(IF fut = "done" THEN "signal" ELSE "phases")
    /\ UNCHANGED <<taskVars, stop_signal, cfgVars, fut, lasting_time, fold_tick, taken, pc,
                   held, sendVars, handed, impVars, api_ret, tmpswitch_tick, acked,
                   starts_left>>

(* ------------------------- check_repl_state --------------------------- *)
\* one INFO REPLICATION round of keep_connecting_and_sending: the handler
\* reads lag_threshold from the configuration at every reply and answers
\* Done when the replica is ready, Ok(()) (poll again) otherwise
check_repl_state ==
    /\ fut = "check"
    /\ \E done \in check_repl_outcomes :
         IF done
         THEN /\ fut' = "switch"
              /\ pc' = [pc EXCEPT ![RQ] = "fold"]
         ELSE UNCHANGED <<fut, pc>>
    /\ UNCHANGED <<taskVars, stop_signal, cfgVars, lasting_time, fold_tick, held, sendVars,
                   handed, impVars, api_ret, tmpswitch_tick, acked, starts_left, futVars>>

(* ----------------- the INFO REPLICATION text and its parser ----------- *)
\* a text is a sequence of characters
CR == "\r"
LF == "\n"
CRLF == <<CR, LF>>
DecDigits == <<"0", "1", "2", "3", "4", "5", "6", "7", "8", "9">>
IsDigit(c) == \E d \in 1..Len(DecDigits) : DecDigits[d] = c
DigitVal(c) == (CHOOSE d \in 1..Len(DecDigits) : DecDigits[d] = c) - 1

RECURSIVE to_string(_)
\* Display of a u64: its decimal digits
to_string(n) ==
    IF n < Len(DecDigits)
    THEN <<DecDigits[n + 1]>>
    ELSE to_string(n \div Len(DecDigits)) \o <<DecDigits[(n % Len(DecDigits)) + 1]>>

RECURSIVE digits_value(_)
digits_value(s) ==
    IF s = <<>>
    THEN 0
    ELSE Len(DecDigits) * digits_value(SubSeq(s, 1, Len(s) - 1)) + DigitVal(s[Len(s)])

\* str::parse::<u64>: an optional plus sign and at least one digit (the
\* numbers of the texts below are far from the overflow of u64)
parse_u64(s) ==
    LET body == IF s # <<>> /\ s[1] = "+" THEN Tail(s) ELSE s
    IN IF body = <<>> \/ \E i \in 1..Len(body) : ~IsDigit(body[i])
       THEN [ok |-> FALSE, v |-> 0]
       ELSE [ok |-> TRUE, v |-> digits_value(body)]

\* the start of the first match of pat in s, 0 when there is none
FirstMatch(s, pat) ==
    LET hits == {i \in 1..(Len(s) - Len(pat) + 1) : SubSeq(s, i, i + Len(pat) - 1) = pat}
    IN IF hits = {} THEN 0 ELSE CHOOSE i \in hits : \A j \in hits : i <= j

RECURSIVE split(_, _)
\* str::split: the pieces between the matches of pat, empty pieces kept
split(s, pat) ==
    LET i == FirstMatch(s, pat)
    IN IF i = 0
       THEN <<s>>
       ELSE <<SubSeq(s, 1, i - 1)>> \o split(SubSeq(s, i + Len(pat), Len(s)), pat)

starts_with(s, pat) == Len(s) >= Len(pat) /\ SubSeq(s, 1, Len(pat)) = pat

KeyIp == <<"i", "p">>
KeyPort == <<"p", "o", "r", "t">>
KeyState == <<"s", "t", "a", "t", "e">>
KeyOffset == <<"o", "f", "f", "s", "e", "t">>
KeyLag == <<"l", "a", "g">>
SlavePrefix == <<"s", "l", "a", "v", "e">>

MetaErr == [ok |-> FALSE, v |-> <<>>]

\* kv_map.get(key) after the inserts of the loop: the last pair with key;
\* a pair is the pieces of one `k=v` item around its equals signs
kv_get(pairs, key) ==
    LET hits == {i \in 1..Len(pairs) : pairs[i][1] = key}
    IN IF hits = {}
       THEN MetaErr
       ELSE [ok |-> TRUE, v |-> pairs[CHOOSE i \in hits : \A j \in hits : j <= i][2]]

\* ReplicaState::parse_replica_meta
parse_replica_meta(value) ==
    LET pairs == [i \in 1..Len(split(value, <<",">>)) |->
                    split(split(value, <<",">>)[i], <<"=">>)]
        ip == kv_get(pairs, KeyIp)
        port == kv_get(pairs, KeyPort)
        st == kv_get(pairs, KeyState)
        offset == kv_get(pairs, KeyOffset)
        lag == kv_get(pairs, KeyLag)
    IN IF \E i \in 1..Len(pairs) : Len(pairs[i]) < 2
       THEN MetaErr
       ELSE IF ~ip.ok \/ ~port.ok \/ ~st.ok \/ ~offset.ok \/ ~lag.ok
       THEN MetaErr
       ELSE IF ~parse_u64(port.v).ok \/ ~parse_u64(offset.v).ok \/ ~parse_u64(lag.v).ok
       THEN MetaErr
       ELSE [ok |-> TRUE,
             v |-> [ip |-> ip.v, port |-> parse_u64(port.v).v, state |-> st.v,
                    offset |-> parse_u64(offset.v).v, lag |-> parse_u64(lag.v).v]]

\* the body of the loop for one line that starts with `slave`: the piece
\* after the first colon, without its last character, is the row
parse_slave_line(line) ==
    LET kv == split(line, <<":">>)
    IN IF Len(kv) < 2 \/ kv[2] = <<>>
       THEN MetaErr
       ELSE parse_replica_meta(SubSeq(kv[2], 1, Len(kv[2]) - 1))

ParseErr == [kind |-> "parse_error", states |-> <<>>]

\* extract_replicas_from_replication_info: Err(()) at the first line that
\* fails, the rows in line order otherwise
extract_replicas_from_replication_info(info) ==
    LET lines == split(info, CRLF)
        slaves == SelectSeq(lines, LAMBDA l : starts_with(l, SlavePrefix))
        parsed == [i \in 1..Len(slaves) |-> parse_slave_line(slaves[i])]
    IN IF \E i \in 1..Len(slaves) : ~parsed[i].ok
       THEN ParseErr
       ELSE [kind |-> "rows", states |-> [i \in 1..Len(slaves) |-> parsed[i].v]]

\* the values of the rows of the tests
ip_dst == <<"1", "2", "7", ".", "0", ".", "0", ".", "1">>
ip_other == <<"1", "2", "7", ".", "0", ".", "0", ".", "2">>
port_sample == 6000
offset_sample == 233
lag_sample == 6699
state_online == <<"o", "n", "l", "i", "n", "e">>

\* meta.dst_node_address
dst_node_address == ip_dst \o <<":">> \o to_string(port_sample)

Lags == {0, MaxLag, lag_sample}

\* the rows a master reports
ReplicaState == [ip : {ip_dst, ip_other}, port : {port_sample}, state : {state_online},
                 offset : {offset_sample}, lag : Lags]

\* the replica at dst_node_address is reported once at most
ReplicaStateSeqs ==
    {rows \in UNION {[1..n -> ReplicaState] : n \in 0..MaxRows} :
        Cardinality({i \in 1..Len(rows) : rows[i].ip = ip_dst}) <= 1}

\* a row that lacks a pair, or whose lag is not a number
RowDefects == {"no_ip", "no_port", "no_state", "no_offset", "no_lag", "bad_number"}

Pair(key, v) == key \o <<"=">> \o v

RECURSIVE JoinWith(_, _)
JoinWith(pieces, sep) ==
    IF pieces = <<>> THEN <<>>
    ELSE IF Len(pieces) = 1 THEN pieces[1]
    ELSE pieces[1] \o sep \o JoinWith(Tail(pieces), sep)

\* the line of replica number i as Redis prints it
SlaveLine(i, row, defect) ==
    LET pairs == (IF defect = "no_ip" THEN <<>> ELSE <<Pair(KeyIp, row.ip)>>)
              \o (IF defect = "no_port" THEN <<>> ELSE <<Pair(KeyPort, to_string(row.port))>>)
              \o (IF defect = "no_state" THEN <<>> ELSE <<Pair(KeyState, row.state)>>)
              \o (IF defect = "no_offset" THEN <<>>
                  ELSE <<Pair(KeyOffset, to_string(row.offset))>>)
              \o (IF defect = "no_lag" THEN <<>>
                  ELSE IF defect = "bad_number" THEN <<Pair(KeyLag, <<"x">>)>>
                  ELSE <<Pair(KeyLag, to_string(row.lag))>>)
    IN SlavePrefix \o to_string(i - 1) \o <<":">> \o JoinWith(pairs, <<",">>)

RoleLine == <<"r", "o", "l", "e", ":", "m", "a", "s", "t", "e", "r">>
BacklogLine == <<"r", "e", "p", "l", "_", "b", "a", "c", "k", "l", "o", "g", "_",
                 "a", "c", "t", "i", "v", "e", ":", "1">>

\* the text: the role line, one line per row, other lines after them when
\* more, the lines separated by CRLF and the last one followed by term
InfoText(rows, defect, term, more) ==
    LET slaves == [i \in 1..Len(rows) |->
                     SlaveLine(i, rows[i], IF i = Len(rows) THEN defect ELSE "none")]
        lines == <<RoleLine>> \o slaves \o (IF more THEN <<BacklogLine>> ELSE <<>>)
    IN JoinWith(lines, CRLF) \o term

\* how the text ends, and whether other lines follow the slave lines
TextEnds == {[term |-> CRLF, more |-> FALSE], [term |-> CRLF, more |-> TRUE],
             [term |-> <<CR>>, more |-> FALSE], [term |-> <<>>, more |-> FALSE]}

\* a bulk reply is kept as what the master reports, its text is ReplyText
BulkReply(rows, defect, term, more) ==
    [kind |-> "bulk", rows |-> rows, defect |-> defect, term |-> term, more |-> more]

OtherReply(k) ==
    [kind |-> k, rows |-> <<>>, defect |-> "none", term |-> <<>>, more |-> FALSE]

\* the bytes of a bulk reply
ReplyText(reply) == InfoText(reply.rows, reply.defect, reply.term, reply.more)

NoInfo == OtherReply("none")

\* the replies to INFO REPLICATION: well-formed texts, texts with a
\* defective row, a bulk string that is not UTF-8, a reply of another type
InfoReplies ==
    {BulkReply(rows, "none", e.term, e.more) : rows \in ReplicaStateSeqs, e \in TextEnds}
    \cup {BulkReply(<<row>>, defect, <<CR>>, FALSE) :
            row \in {r \in ReplicaState : r.ip = ip_dst /\ r.lag = 0}, defect \in RowDefects}
    \cup {OtherReply("not_utf8"), OtherReply("not_bulk")}

\* the texts a later poll can see: the replica to follow alone, its line
\* followed by CR
LaterReplies ==
    {BulkReply(<<row>>, "none", <<CR>>, FALSE) : row \in {r \in ReplicaState : r.ip = ip_dst}}

\* what the match arms of handle_func make of a reply
decode_reply(reply) ==
    IF reply.kind # "bulk"
    THEN [kind |-> reply.kind, rows |-> <<>>]
    ELSE LET res == extract_replicas_from_replication_info(ReplyText(reply))
         IN IF res.kind = "parse_error"
            THEN [kind |-> "parse_error", rows |-> <<>>]
            ELSE [kind |-> "rows",
                  rows |-> [i \in 1..Len(res.states) |->
                              [is_dst |-> res.states[i].ip \o <<":">>
                                            \o to_string(res.states[i].port)
                                          = dst_node_address,
                               lag |-> res.states[i].lag]]]

\* a handler that ends the polling on a reply it cannot parse
handle_func_stops_on_error(reply, threshold) ==
    IF decode_reply(reply).kind # "rows" \/ check_repl_done(decode_reply(reply), threshold)
    THEN "Done"
    ELSE "Ok"

\* handle_func of check_repl_state: Err(RedisClientError::Done) or Ok(())
handle_func(reply, threshold) ==
    IF check_repl_done(decode_reply(reply), threshold) THEN "Done" ELSE "Ok"

NoParse == [kind |-> "none", states |-> <<>>]

\* one round of the polling with the reply the master gives: as
\* check_repl_state, with the reply and what the handler made of it kept
check_repl_reply ==
    /\ fut = "check"
    /\ info_reply.kind # "none"
    /\ repl_answer = "none"
    /\ parse_result' = (IF info_reply.kind = "bulk"
                        THEN extract_replicas_from_replication_info(ReplyText(info_reply))
                        ELSE NoParse)
    /\ first_kind' = (IF first_kind = "none"
                      THEN (IF parse_result'.kind = "none" THEN info_reply.kind
                            ELSE parse_result'.kind)
                      ELSE first_kind)
    /\ repl_answer' = handle_func(info_reply, cfg_lag_threshold)
    /\ IF repl_answer' = "Done"
       THEN /\ fut' = "switch"
            /\ pc' = [pc EXCEPT ![RQ] = "fold"]
       ELSE UNCHANGED <<fut, pc>>
    /\ UNCHANGED <<info_reply, cfg_lag_threshold>>
    /\ UNCHANGED <<taskVars, stop_signal, cfgVars, lasting_time, fold_tick, held, sendVars,
                   handed, impVars, api_ret, tmpswitch_tick, acked, starts_left, futVars>>

\* the interval has passed and the master reports another text
reply_changes ==
    /\ fut = "check"
    /\ repl_answer = "Ok"
    /\ \E reply \in LaterReplies : info_reply' = reply
    /\ repl_answer' = "none"
    /\ UNCHANGED <<parse_result, first_kind, cfg_lag_threshold, migVars>>

(* --------- keep_sending_cmd and keep_connecting_and_sending_cmd ------- *)
\* a keep_sending_cmd that goes on after an error of the handler
after_handle_ignores_error(ans) == IF ans = "Done" THEN "Done" ELSE "continue"

\* `handle_result(response)?`: the error of the handler is returned
after_handle(ans) == IF ans = "Ok" THEN "continue" ELSE ans

\* `Err(err) => return Err(err)` of the match on client.execute
after_execute(ok) == IF ok THEN "handle" ELSE "Closed"

\* a loop that ends at any error of keep_sending_cmd
outer_returns_on_error(res) == TRUE

\* the match on the result of keep_sending_cmd: only the arm
\* Err(RedisClientError::Done) returns
outer_returns(res) == res = "Done"

\* keep_connecting_and_sending_cmd: the cached client is None
kc_call ==
    /\ kc_pc = "idle"
    /\ kc_pc' = "connect"
    /\ UNCHANGED <<kc_client, created, exec_log, handler_log, ks_rets, execs_left,
                   creates_left>>

\* client_factory.create_client(address): a failure is logged and followed
\* by Delay and `continue`
create_client ==
    /\ kc_pc = "connect"
    /\ creates_left > 0
    /\ creates_left' = creates_left - 1
    /\ \E ok \in BOOLEAN :
         IF ok
         THEN /\ created' = created + 1
              /\ kc_client' = created + 1
              /\ kc_pc' = "execute"
         ELSE /\ kc_pc' = "create_delay"
              /\ UNCHANGED <<created, kc_client>>
    /\ UNCHANGED <<exec_log, handler_log, ks_rets, execs_left>>

\* what the outer loop does with the result of keep_sending_cmd: return
\* the client, or drop it and wait
keep_sending_returns(res) ==
    /\ ks_rets' = Append(ks_rets, res)
    /\ IF outer_returns(res)
       THEN /\ kc_pc' = "returned"
            /\ UNCHANGED kc_client
       ELSE /\ kc_pc' = "retry_delay"
            /\ kc_client' = 0

\* client.execute(cmd) inside keep_sending_cmd
execute ==
    /\ kc_pc = "execute"
    /\ execs_left > 0
    /\ execs_left' = execs_left - 1
    /\ \E ok \in BOOLEAN :
         /\ exec_log' = Append(exec_log, [call |-> Len(ks_rets) + 1, client |-> kc_client,
                                          ok |-> ok])
         /\ IF after_execute(ok) = "handle"
            THEN /\ kc_pc' = "handle"
                 /\ UNCHANGED <<ks_rets, kc_client>>
            ELSE keep_sending_returns(after_execute(ok))
    /\ UNCHANGED <<created, handler_log, creates_left>>

\* handle_result(response)
handle_result ==
    /\ kc_pc = "handle"
    /\ \E ans \in {"Ok", "Done", "Canceled"} :
         /\ handler_log' = Append(handler_log, [call |-> Len(ks_rets) + 1,
                                                resp |-> Len(exec_log), ans |-> ans])
         /\ IF after_handle(ans) = "continue"
            THEN /\ kc_pc' = "send_delay"
                 /\ UNCHANGED <<ks_rets, kc_client>>
            ELSE keep_sending_returns(after_handle(ans))
    /\ UNCHANGED <<created, exec_log, execs_left, creates_left>>

\* Delay::new(interval) has elapsed: in keep_sending_cmd, after a failed
\* creation, at the end of an iteration of the outer loop
delay_elapsed ==
    /\ kc_pc \in {"send_delay", "create_delay", "retry_delay"}
    /\ kc_pc' = (IF kc_pc = "send_delay" THEN "execute" ELSE "connect")
    /\ UNCHANGED <<kc_client, created, exec_log, handler_log, ks_rets, execs_left,
                   creates_left>>

(* ------------------- RedisImportingTask::commit ----------------------- *)
\* accepts every version
commit_accepts_any(version) == TRUE

\* `switch_arg.version != SERVER_PROXY_VERSION` is the error case
commit_accepts(version) == version = SERVER_PROXY_VERSION

\* a commit that refuses a task that is committed already
importing_commit_once(cur, version) ==
    IF ~commit_accepts(version)
    THEN [ret |-> "IncompatibleVersion", state |-> cur]
    ELSE IF cur = SwitchCommitted
         THEN [ret |-> "AlreadyEnded", state |-> cur]
         ELSE [ret |-> "Ok", state |-> set_state(cur, SwitchCommitted)]

importing_commit(cur, version) ==
    IF ~commit_accepts(version)
    THEN [ret |-> "IncompatibleVersion", state |-> cur]
    ELSE [ret |-> "Ok", state |-> set_state(cur, SwitchCommitted)]

(* --------------------------- commit_switch ---------------------------- *)
\* handle_func of commit_switch answers Ok(()) for an error reply and for
\* a non-error reply alike, so keep_sending_cmd goes on after both
commit_handler_continues(reply_is_error) == TRUE

\* one UMCTL TMPSWITCH round that reaches the destination proxy, which
\* passes the argument to ImportingTask::commit and replies +OK or -ERR
\* (-ERR as well when its importing task has been dropped)
commit_switch ==
    /\ fut = "switch"
    /\ \E version \in Versions :
         LET r == IF imp_ret = "Dropped"
                  THEN [ret |-> "Dropped", state |-> imp_state]
                  ELSE importing_commit(imp_state, version)
             is_error == r.ret # "Ok"
         IN /\ imp_state' = r.state
            /\ imp_ret' = r.ret
            /\ state' = IF is_error THEN state ELSE set_state(state, SwitchCommitted)
            /\ acked' = (acked \/ ~is_error)
            /\ fut' = IF commit_handler_continues(is_error) THEN fut ELSE "switch_done"
    /\ state_trace' = Track(state')
    /\ tmpswitch_tick' = 1 - tmpswitch_tick
    /\ UNCHANGED <<blocking, redirection_stopped, cmd_task_queue, stop_signal, cfgVars,
                   lasting_time, fold_tick, pc, held, sendVars, handed, imp_stop_signal,
                   imp_fut, imp_fut_ret, imp_taken, imp_handed, imp_back, commit_trace,
                   imp_cmds_left, api_ret, starts_left, futVars>>

(* --------------------------- release_queue ---------------------------- *)
\* the delay of one poll of the fold when the commit was not forced
poll_delay(min_blocking) == Min(min_blocking, PollCapMillis)

\* no first iteration: the fold looks at the state right away
first_iteration_never(lasting) == FALSE

\* `if lasting_time == 0`: the iteration that only waits min_blocking_time
first_iteration(lasting) == lasting = 0

\* one iteration of the fold closure, up to the Delay it returns
release_queue ==
    /\ pc[RQ] = "fold"
    /\ IF first_iteration(lasting_time)
       THEN \* `+1` make sure it will be non-zero next time
            /\ lasting_time' = lasting_time + min_blocking_time + 1
            /\ fold_tick' = 1 - fold_tick
            /\ UNCHANGED <<state, state_trace, pc, cfgVars>>
       ELSE LET forced == lasting_time > max_blocking_time
                st == IF forced THEN set_state(state, SwitchCommitted) ELSE state
                delay_time == IF forced THEN 0 ELSE poll_delay(min_blocking_time)
            IN /\ state' = st
               /\ state_trace' = Track(st)
               /\ IF st # SwitchCommitted
                  THEN /\ lasting_time' = lasting_time + delay_time
                       /\ fold_tick' = 1 - fold_tick
                       /\ UNCHANGED <<pc, cfgVars>>
                  ELSE /\ pc' = [pc EXCEPT ![RQ] = "drain_store"]
                       /\ lasting_time' = 0
                       /\ fold_tick' = 0
                       /\ min_blocking_time' = 0
                       /\ max_blocking_time' = 0
                       /\ UNCHANGED redundant_calls
    /\ UNCHANGED <<blocking, redirection_stopped, cmd_task_queue, stop_signal, fut,
                   held, sendVars, handed, impVars, api_ret, tmpswitch_tick, acked,
                   starts_left, futVars>>

(* --------------------------- stop_redirection ------------------------- *)
\* the timer leaves the flag alone
redirection_after_timeout_keeps(cur) == cur

\* redirection_stopped.store(true, ..), whatever the timer's result
redirection_after_timeout(cur) == TRUE

stop_redirection ==
    /\ pc[RQ] = "redirecting"
    /\ redirection_stopped' = redirection_after_timeout(redirection_stopped)
    /\ pc' = [pc EXCEPT ![RQ] = "done"]
    /\ UNCHANGED <<state, blocking, cmd_task_queue, state_trace, stop_signal, cfgVars, fut,
                   lasting_time, fold_tick, held, sendVars, handed, impVars, api_ret,
                   tmpswitch_tick, acked, starts_left, futVars>>

(* -------------------------- drain_waiting_queue ----------------------- *)
\* where a thread goes when its drain_waiting_queue returns: a client
\* thread returns from send, the task goes on to stop_redirection
AfterDrain(p) ==
    IF p = RQ THEN (IF fut = "done" THEN "idle" ELSE "redirecting") ELSE "idle"

\* blocking.store(false)
drain_store(p) ==
    /\ pc[p] = "drain_store"
    /\ blocking' = FALSE
    /\ pc' = [pc EXCEPT ![p] = "drain_recv"]
    /\ UNCHANGED <<state, redirection_stopped, cmd_task_queue, state_trace, stop_signal,
                   cfgVars, fut, lasting_time, fold_tick, held, sendVars, handed, impVars,
                   api_ret, tmpswitch_tick, acked, starts_left, futVars>>

\* cmd_task_receiver.try_recv()
drain_recv(p) ==
    /\ pc[p] = "drain_recv"
    /\ IF cmd_task_queue # <<>>
       THEN /\ held' = [held EXCEPT ![p] = Head(cmd_task_queue)]
            /\ cmd_task_queue' = Tail(cmd_task_queue)
            /\ pc' = [pc EXCEPT ![p] = "drain_send"]
       ELSE /\ pc' = [pc EXCEPT ![p] = AfterDrain(p)]
            /\ UNCHANGED <<held, cmd_task_queue>>
    /\ UNCHANGED <<state, blocking, redirection_stopped, state_trace, stop_signal, cfgVars,
                   fut, lasting_time, fold_tick, sendVars, handed, impVars, api_ret,
                   tmpswitch_tick, acked, starts_left, futVars>>

\* a failed command goes back to the end of the queue
queue_after_send_requeues(queue, c, ok) == IF ok THEN queue ELSE Append(queue, c)

\* `if let Err(err) = sender.send(cmd_task) { error!(..) }`: the queue is
\* not touched, the failed command is dropped with err
queue_after_send(queue, c, ok) == queue

\* sender.send(cmd_task): a failure is logged and the command is dropped;
\* via tells the drain of the task from a drain run by a call of send
drain_send(p) ==
    /\ pc[p] = "drain_send"
    /\ \E ok \in BOOLEAN :
         /\ handed' = Append(handed, [cmd |-> held[p], ok |-> ok,
                                     via |-> IF p = RQ THEN "drain" ELSE "drain_in_send"])
         /\ cmd_task_queue' = queue_after_send(cmd_task_queue, held[p], ok)
    /\ held' = [held EXCEPT ![p] = NoCmd]
    /\ pc' = [pc EXCEPT ![p] = "drain_recv"]
    /\ UNCHANGED <<state, blocking, redirection_stopped, state_trace, stop_signal, cfgVars, fut, lasting_time, fold_tick, sendVars,
                   impVars, api_ret, tmpswitch_tick, acked, starts_left, futVars>>

(* ----------------------- RedisMigratingTask::send --------------------- *)
\* rejects in TransferringData only
send_rejects_no_redirection_check(st, redir_stopped) == st = TransferringData

\* the condition of the first if of send
send_rejects(st, redir_stopped) == st = TransferringData \/ redir_stopped

\* the command of the next call of send
NextCmd == MaxCmds - cmds_left + 1

\* send is called with a fresh command; SlotNotFound gives it back
send_call(s) ==
    /\ pc[s] = "idle"
    /\ api_ret # "Dropped"
    /\ cmds_left > 0
    /\ cmds_left' = cmds_left - 1
    /\ IF send_rejects(state, redirection_stopped)
       THEN /\ ret' = [ret EXCEPT ![s] = [kind |-> "SlotNotFound", cmd |-> NextCmd]]
            /\ UNCHANGED <<pc, call_view, cmd>>
       ELSE /\ ret' = [ret EXCEPT ![s] = NoRet]
            /\ cmd' = [cmd EXCEPT ![s] = NextCmd]
            /\ call_view' = [call_view EXCEPT ![s] = [state |-> state, blocking |-> blocking]]
            /\ pc' = [pc EXCEPT ![s] = "load_blocking"]
    /\ UNCHANGED <<taskVars, stop_signal, cfgVars, fut, lasting_time, fold_tick, held,
                   handed, impVars, api_ret, tmpswitch_tick, acked, starts_left, futVars>>

\* never forwards directly, every command goes through the queue
send_forwards_directly_never(b) == FALSE

\* the first load of blocking: `if !self.blocking.load(..)`
send_forwards_directly(b) == ~b

\* if !blocking: hand the command to the destination sender and return
send_load_blocking(s) ==
    /\ pc[s] = "load_blocking"
    /\ IF send_forwards_directly(blocking)
       THEN \E ok \in BOOLEAN :
              /\ handed' = Append(handed, [cmd |-> cmd[s], ok |-> ok, via |-> "send"])
              /\ ret' = [ret EXCEPT ![s] =
                           [kind |-> IF ok THEN "Ok" ELSE "MigrationError", cmd |-> NoCmd]]
              /\ pc' = [pc EXCEPT ![s] = "idle"]
              /\ call_view' = [call_view EXCEPT ![s] = NoView]
              /\ cmd' = [cmd EXCEPT ![s] = NoCmd]
       ELSE /\ pc' = [pc EXCEPT ![s] = "enqueue"]
            /\ UNCHANGED <<handed, ret, call_view, cmd>>
    /\ UNCHANGED <<taskVars, stop_signal, cfgVars, fut, lasting_time, fold_tick, held,
                   cmds_left, impVars, api_ret, tmpswitch_tick, acked, starts_left, futVars>>

\* cmd_task_sender.send(cmd_task): the task owns the receiver, so the
\* channel is never disconnected and the push succeeds
send_enqueue(s) ==
    /\ pc[s] = "enqueue"
    /\ cmd_task_queue' = Append(cmd_task_queue, cmd[s])
    /\ pc' = [pc EXCEPT ![s] = "recheck"]
    /\ call_view' = [call_view EXCEPT ![s] = NoView]
    /\ cmd' = [cmd EXCEPT ![s] = NoCmd]
    /\ UNCHANGED <<state, blocking, redirection_stopped, state_trace, stop_signal, cfgVars,
                   fut, lasting_time, fold_tick, held, ret, cmds_left, handed, impVars, api_ret,
                   tmpswitch_tick, acked, starts_left, futVars>>

\* returns without looking at blocking again
send_recheck_never_drains(b) == FALSE

\* the second load of blocking: drain when it is false
send_recheck_drains(b) == ~b

send_recheck(s) ==
    /\ pc[s] = "recheck"
    /\ ret' = [ret EXCEPT ![s] = [kind |-> "Ok", cmd |-> NoCmd]]
    /\ pc' = [pc EXCEPT ![s] = IF send_recheck_drains(blocking) THEN "drain_store" ELSE "idle"]
    /\ UNCHANGED <<taskVars, stop_signal, cfgVars, fut, lasting_time, fold_tick, held, cmd,
                   call_view, cmds_left, handed, impVars, api_ret, tmpswitch_tick, acked, starts_left, futVars>>

(* --------------------------- RedisImportingTask ----------------------- *)
migOnly == <<taskVars, stop_signal, cfgVars, fut, lasting_time, fold_tick, futVars, pc, held,
             sendVars, handed, api_ret, tmpswitch_tick, acked, starts_left>>

imp_start ==
    /\ imp_ret # "Dropped"
    /\ IF imp_stop_signal
       THEN /\ redundant_calls
            /\ imp_ret' = "AlreadyStarted"
            /\ UNCHANGED <<imp_stop_signal, imp_fut, imp_fut_ret, imp_taken>>
       ELSE /\ imp_fut_ret # "pending"
            /\ imp_stop_signal' = TRUE
            /\ imp_fut' = "timer"
            /\ imp_fut_ret' = "pending"
            /\ imp_taken' = 0
            /\ imp_ret' = "Started"
    /\ UNCHANGED <<migOnly, imp_state, imp_handed, imp_back, commit_trace, imp_cmds_left>>

\* send_stop_signal with the sender in the slot: take() it and send; the
\* oneshot send fails when the future has already completed and dropped
\* its receiver
imp_send_stop_signal ==
    /\ imp_stop_signal' = stop_signal_take(imp_stop_signal)
    /\ imp_taken' = Min(imp_taken + 1, 2)
    /\ imp_fut' = "done"
    /\ UNCHANGED imp_fut_ret

\* stop -> send_stop_signal
imp_stop ==
    /\ imp_ret # "Dropped"
    /\ IF imp_stop_signal
       THEN /\ imp_send_stop_signal
            /\ imp_ret' = IF imp_fut = "timer" THEN "Stopped" ELSE "Canceled"
       ELSE /\ redundant_calls
            /\ imp_ret' = "AlreadyEnded"
            /\ UNCHANGED <<imp_stop_signal, imp_fut, imp_fut_ret, imp_taken>>
    /\ UNCHANGED <<migOnly, imp_state, imp_handed, imp_back, commit_trace, imp_cmds_left>>

\* Drop for RedisImportingTask: send_stop_signal().unwrap_or(())
imp_drop ==
    /\ imp_ret # "Dropped"
    /\ imp_ret' = "Dropped"
    /\ IF imp_stop_signal
       THEN imp_send_stop_signal
       ELSE UNCHANGED <<imp_stop_signal, imp_fut, imp_fut_ret, imp_taken>>
    /\ UNCHANGED <<migOnly, imp_state, imp_handed, imp_back, commit_trace, imp_cmds_left>>

\* a poll of the future returned by start after the stop signal was sent
\* (the timer completes the future in its own poll)
imp_select_stop ==
    /\ imp_fut_ret = "pending"
    /\ select_completes(imp_fut = "done", FALSE)
    /\ imp_fut_ret' = start_then("signal")
    /\ UNCHANGED <<migOnly, imp_state, imp_stop_signal, imp_fut, imp_ret, imp_taken,
                   imp_handed, imp_back, commit_trace, imp_cmds_left>>

\* the timer leaves the state alone
timeout_state_keeps(cur) == cur

\* state.set_state(MigrationState::SwitchCommitted) of the timer
timeout_state(cur) == set_state(cur, SwitchCommitted)

\* the Delay of max_blocking_time elapsed
release_importing_for_timeout ==
    /\ imp_fut = "timer"
    /\ imp_state' = timeout_state(imp_state)
    /\ imp_fut' = "done"
    /\ imp_fut_ret' = start_then("timer")
    /\ UNCHANGED <<migOnly, imp_stop_signal, imp_ret, imp_taken, imp_handed, imp_back,
                   commit_trace, imp_cmds_left>>

\* never rejects
imp_send_rejects_never(st) == FALSE

\* the condition of the if of ImportingTask::send
imp_send_rejects(st) == st = SwitchCommitted

\* the command of the next call of ImportingTask::send
ImpNextCmd == MaxImpCmds - imp_cmds_left + 1

\* RedisImportingTask::send: SlotNotFound gives the command back, otherwise
\* the command goes to a sender created for meta.src_proxy_address
imp_send ==
    /\ imp_ret # "Dropped"
    /\ imp_cmds_left > 0
    /\ imp_cmds_left' = imp_cmds_left - 1
    /\ IF imp_send_rejects(imp_state)
       THEN /\ imp_ret' = "SlotNotFound"
            /\ imp_back' = ImpNextCmd
            /\ UNCHANGED imp_handed
       ELSE \E ok \in BOOLEAN :
              /\ imp_handed' = Append(imp_handed, [cmd |-> ImpNextCmd, ok |-> ok,
                                                  to |-> "src_proxy_address"])
              /\ imp_ret' = IF ok THEN "Forwarded" ELSE "MigrationError"
              /\ imp_back' = NoCmd
    /\ UNCHANGED <<migOnly, imp_state, imp_stop_signal, imp_fut, imp_fut_ret, imp_taken,
                   commit_trace>>

\* UMCTL TMPSWITCH handled by the destination: ImportingTask::commit
imp_commit ==
    /\ imp_ret # "Dropped"
    /\ Len(commit_trace) < MaxCommits
    /\ \E version \in Versions :
         LET r == importing_commit(imp_state, version)
         IN /\ imp_state' = r.state
            /\ imp_ret' = r.ret
            /\ commit_trace' = Append(commit_trace, [version |-> version, ret |-> r.ret])
    /\ UNCHANGED <<migOnly, imp_stop_signal, imp_fut, imp_fut_ret, imp_taken, imp_handed,
                   imp_back, imp_cmds_left>>

(* ============================ handle_session ========================== *)
ItemKinds == {"packet", "invalid_protocol", "io_error"}

\* the map_err on the read side of handle_session
reader_map_err(kind) ==
    IF kind = "io_error" THEN "Io" ELSE "Canceled"

SessInit ==
    /\ sess_pc = "read"
    /\ session_batch_buf \in 1..MaxBatchBuf
    /\ reqs = <<>>
    /\ reply_receiver_list = <<>>
    /\ replies = <<>>
    /\ reply_chan = [i \in 1..MaxReqs |-> "none"]
    /\ written = <<>>
    /\ sess_ret = "none"
    /\ delivered = 0
    /\ read_seq = <<>>
    /\ done_order = <<>>

\* reader.next(): try_chunks_timeout releases a batch of 1..session_batch_buf
\* items (fewer than the buffer size when one of the two timers fires)
sess_read ==
    /\ sess_pc = "read"
    /\ \E n \in 1..session_batch_buf :
         /\ delivered + n <= MaxReqs
         /\ \E kinds \in [1..n -> ItemKinds] :
              reqs' = [i \in 1..n |-> [kind |-> kinds[i], id |-> delivered + i]]
         /\ delivered' = delivered + n
    /\ sess_pc' = "dispatch"
    /\ UNCHANGED <<session_batch_buf, reply_receiver_list, replies, reply_chan, written,
                   sess_ret, read_seq, done_order>>

\* reader.next() answers None: the client closed the connection
sess_eof ==
    /\ sess_pc = "read"
    /\ sess_pc' = "returned"
    /\ sess_ret' = "Ok"
    /\ UNCHANGED <<session_batch_buf, reqs, reply_receiver_list, replies, reply_chan, written,
                   delivered, read_seq, done_order>>

\* leaves the loop with one request still to dispatch
dispatch_done_early(rs) == Len(rs) <= 1

\* `for req in reqs.drain(..)` ends when every item has been taken
dispatch_done(rs) == rs = <<>>

\* one iteration of `for req in reqs.drain(..)`
sess_dispatch ==
    /\ sess_pc = "dispatch"
    /\ IF dispatch_done(reqs)
       THEN /\ sess_pc' = "await"
            /\ UNCHANGED <<reqs, reply_chan, reply_receiver_list, read_seq, sess_ret>>
       ELSE LET req == Head(reqs)
            IN IF req.kind # "packet"
               THEN /\ sess_ret' = reader_map_err(req.kind)
                    /\ sess_pc' = "returned"
                    /\ reqs' = <<>>
                    /\ UNCHANGED <<reply_chan, reply_receiver_list, read_seq>>
               ELSE /\ reply_chan' = [reply_chan EXCEPT ![req.id] = "pending"]
                    /\ reply_receiver_list' = Append(reply_receiver_list, req.id)
                    /\ read_seq' = Append(read_seq, req.id)
                    /\ reqs' = Tail(reqs)
                    /\ UNCHANGED <<sess_pc, sess_ret>>
    /\ UNCHANGED <<session_batch_buf, replies, written, delivered, done_order>>

\* what a reply channel holds once its receiver can resolve
Resolved == {"ok", "err", "dropped"}

\* a set_result that sends nothing
set_result_discards(chan, result) == chan

\* CmdCtx::set_result: reply_sender.send(task_result) on the channel
set_result(chan, result) == result

\* Drop of the reply sender (super::command): a sender that was never used
\* sends Err(CommandError::Dropped), a used one sends nothing more
reply_sender_drop(chan) == IF chan = "pending" THEN "dropped" ELSE chan

\* the CmdCtx of request i is gone
CtxGone(i) == \E k \in 1..Len(done_order) : done_order[k].req = i

\* a back-end calls set_result on the CmdCtx of a request, with Ok or with
\* an error, or destroys it without a result; either way the CmdCtx and its
\* reply sender are dropped
backend_complete ==
    /\ \E i \in 1..MaxReqs :
         /\ reply_chan[i] = "pending"
         /\ ~CtxGone(i)
         /\ \E how \in {"ok", "err", "none"} :
              /\ reply_chan' = [reply_chan EXCEPT ![i] =
                                  reply_sender_drop(IF how = "none" THEN reply_chan[i]
                                                    ELSE set_result(reply_chan[i], how))]
              /\ done_order' = Append(done_order, [req |-> i, how |-> how])
    /\ UNCHANGED <<sess_pc, session_batch_buf, reqs, reply_receiver_list, replies, written,
                   sess_ret, delivered, read_seq>>

\* takes any receiver whose reply_chan has arrived
next_receiver_any(list, rep) ==
    IF \E k \in 1..Len(list) : rep[list[k]] \in Resolved
    THEN CHOOSE k \in 1..Len(list) :
           /\ rep[list[k]] \in Resolved
           /\ \A j \in 1..Len(list) : rep[list[j]] \in Resolved => j <= k
    ELSE 0

\* `for reply_receiver in reply_receiver_list.drain(..)`: the index of the
\* receiver that is awaited next, 0 while its reply_chan has not arrived
next_receiver(list, rep) ==
    IF rep[list[1]] \in Resolved THEN 1 ELSE 0

RemoveAt(seq, k) == [j \in 1..(Len(seq) - 1) |-> IF j < k THEN seq[j] ELSE seq[j + 1]]

\* an error of the receiver ends the session
await_terminates_on_error(res) == res # "ok"

\* `let packet = match res`: no arm of the match returns
await_terminates(res) == FALSE

\* the packet pushed to replies: the reply of the back-end, or
\* Resp::Error("Err cmd error ..")
session_reply(res) == IF res = "ok" THEN "ok" ELSE "err"

\* one iteration of the await loop
sess_await ==
    /\ sess_pc = "await"
    /\ IF reply_receiver_list = <<>>
       THEN /\ sess_pc' = "write"
            /\ UNCHANGED <<reply_receiver_list, replies, sess_ret>>
       ELSE LET k == next_receiver(reply_receiver_list, reply_chan)
                res == reply_chan[reply_receiver_list[k]]
            IN /\ k # 0
               /\ IF await_terminates(res)
                  THEN /\ sess_pc' = "returned"
                       /\ sess_ret' = "CmdErr"
                       /\ UNCHANGED <<replies, reply_receiver_list>>
                  ELSE /\ replies' = Append(replies, [req |-> reply_receiver_list[k],
                                                      kind |-> session_reply(res)])
                       /\ reply_receiver_list' = RemoveAt(reply_receiver_list, k)
                       /\ UNCHANGED <<sess_pc, sess_ret>>
    /\ UNCHANGED <<session_batch_buf, reqs, reply_chan, written, delivered, read_seq,
                   done_order>>

\* writer.send_all(&mut batch): all replies, or an error after some of them
sess_write ==
    /\ sess_pc = "write"
    /\ \/ /\ written' = written \o replies
          /\ sess_pc' = "read"
          /\ UNCHANGED sess_ret
       \/ \E k \in 0..Len(replies) :
            /\ written' = written \o SubSeq(replies, 1, k)
            /\ sess_pc' = "returned"
            /\ \E e \in {"Io", "InvalidState"} : sess_ret' = e
    /\ replies' = <<>>
    /\ UNCHANGED <<session_batch_buf, reqs, reply_receiver_list, reply_chan, delivered, read_seq,
                   done_order>>

(* ============================ specifications ========================== *)
vars == <<migVars, sessVars, auxVars>>

\* the replication check is not followed reply by reply
ParseIdle ==
    /\ info_reply = NoInfo
    /\ cfg_lag_threshold = 0
    /\ parse_result = NoParse
    /\ repl_answer = "none"
    /\ first_kind = "none"

\* keep_connecting_and_sending_cmd is not followed call by call
RetryIdle ==
    /\ kc_pc = "idle"
    /\ kc_client = 0
    /\ created = 0
    /\ exec_log = <<>>
    /\ handler_log = <<>>
    /\ ks_rets = <<>>
    /\ execs_left = 0
    /\ creates_left = 0

AuxIdle == ParseIdle /\ RetryIdle

SessIdle ==
    /\ SessInit
    /\ session_batch_buf = 1

Init ==
    /\ MigInit
    /\ cmds_left = MaxCmds
    /\ starts_left = 1
    /\ imp_cmds_left = 0
    /\ redundant_calls = FALSE
    /\ SessIdle
    /\ AuxIdle

MigNext ==
    \/ start
    \/ stop
    \/ drop_task
    \/ select_stop
    \/ check_repl_state
    \/ commit_switch
    \/ release_queue
    \/ stop_redirection
    \/ \E p \in Procs : drain_store(p)
    \/ \E p \in Procs : drain_recv(p)
    \/ \E p \in Procs : drain_send(p)
    \/ \E s \in Senders : send_call(s)
    \/ \E s \in Senders : send_load_blocking(s)
    \/ \E s \in Senders : send_enqueue(s)
    \/ \E s \in Senders : send_recheck(s)

Next == MigNext /\ UNCHANGED <<sessVars, auxVars>>

Spec == Init /\ [][Next]_vars

\* the executor keeps polling the spawned future of start, and a thread
\* inside send or drain_waiting_queue keeps running
FutureStep ==
    \/ select_stop
    \/ check_repl_state
    \/ release_queue
    \/ stop_redirection
    \/ \E p \in Procs : drain_store(p) \/ drain_recv(p) \/ drain_send(p)

\* the runs whose liveness is checked see two client commands
FairInit ==
    /\ MigInit
    /\ cmds_left = 2
    /\ starts_left = 1
    /\ imp_cmds_left = 0
    /\ redundant_calls = FALSE
    /\ SessIdle
    /\ AuxIdle

FairSpec == FairInit /\ [][Next]_vars /\ WF_vars(FutureStep /\ UNCHANGED <<sessVars, auxVars>>)

LifeInit ==
    /\ MigInit
    /\ cmds_left = 1
    /\ starts_left = MaxStarts
    /\ imp_cmds_left = 0
    /\ redundant_calls = FALSE
    /\ SessIdle
    /\ AuxIdle

\* both proxies of the migration
LifeNext ==
    /\ \/ MigNext
       \/ imp_start
       \/ imp_stop
       \/ imp_select_stop
       \/ release_importing_for_timeout
    /\ UNCHANGED <<sessVars, auxVars>>

LifeSpec == LifeInit /\ [][LifeNext]_vars

ImpInit ==
    /\ MigInit
    /\ cmds_left = 0
    /\ starts_left = 0
    /\ imp_cmds_left = MaxImpCmds
    /\ redundant_calls = TRUE
    /\ SessIdle
    /\ AuxIdle

ImpNext ==
    /\ \/ imp_start
       \/ imp_stop
       \/ imp_drop
       \/ imp_select_stop
       \/ release_importing_for_timeout
       \/ imp_send
       \/ imp_commit
    /\ UNCHANGED <<sessVars, auxVars>>

ImpSpec == ImpInit /\ [][ImpNext]_vars

\* the executor keeps polling the spawned future of the importing task
ImpFutureStep ==
    \/ imp_select_stop
    \/ release_importing_for_timeout

ImpFairSpec == ImpSpec /\ WF_vars(ImpFutureStep /\ UNCHANGED <<sessVars, auxVars>>)

\* one start of each task, stopped or dropped at any time
StopInit ==
    /\ MigInit
    /\ cmds_left = 1
    /\ starts_left = 1
    /\ imp_cmds_left = 0
    /\ redundant_calls = FALSE
    /\ SessIdle
    /\ AuxIdle

StopNext ==
    /\ \/ MigNext
       \/ imp_start
       \/ imp_stop
       \/ imp_drop
       \/ imp_select_stop
       \/ release_importing_for_timeout
    /\ UNCHANGED <<sessVars, auxVars>>

StopSpec ==
    /\ StopInit
    /\ [][StopNext]_vars
    /\ WF_vars(FutureStep /\ UNCHANGED <<sessVars, auxVars>>)
    /\ WF_vars(ImpFutureStep /\ UNCHANGED <<sessVars, auxVars>>)

\* the same with a supervisor that also calls start on a running task and
\* stop on a stopped one
CallInit ==
    /\ MigInit
    /\ cmds_left = 1
    /\ starts_left = 1
    /\ imp_cmds_left = 0
    /\ redundant_calls = TRUE
    /\ SessIdle
    /\ AuxIdle

CallSpec == CallInit /\ [][StopNext]_vars

SessSpecInit ==
    /\ MigInit
    /\ cmds_left = 0
    /\ starts_left = 0
    /\ imp_cmds_left = 0
    /\ redundant_calls = FALSE
    /\ SessInit
    /\ AuxIdle

SessNext ==
    /\ \/ sess_read
       \/ sess_eof
       \/ sess_dispatch
       \/ backend_complete
       \/ sess_await
       \/ sess_write
    /\ UNCHANGED <<migVars, auxVars>>

SessSpec == SessSpecInit /\ [][SessNext]_vars

\* the replication check of a started task, reply by reply
ParseInit ==
    /\ MigInit
    /\ cmds_left = 0
    /\ starts_left = 1
    /\ imp_cmds_left = 0
    /\ redundant_calls = FALSE
    /\ SessIdle
    /\ info_reply \in InfoReplies
    /\ cfg_lag_threshold \in 0..MaxLagThreshold
    /\ parse_result = NoParse
    /\ repl_answer = "none"
    /\ first_kind = "none"
    /\ RetryIdle

ParseNext ==
    \/ start /\ UNCHANGED <<sessVars, auxVars>>
    \/ check_repl_reply /\ UNCHANGED <<sessVars, retryVars>>
    \/ reply_changes /\ UNCHANGED <<sessVars, retryVars>>

ParseSpec == ParseInit /\ [][ParseNext]_vars

\* one call of keep_connecting_and_sending_cmd with a client factory, a
\* client and a handler that can fail at any call
RetryInit ==
    /\ MigInit
    /\ cmds_left = 0
    /\ starts_left = 0
    /\ imp_cmds_left = 0
    /\ redundant_calls = FALSE
    /\ SessIdle
    /\ ParseIdle
    /\ kc_pc = "idle"
    /\ kc_client = 0
    /\ created = 0
    /\ exec_log = <<>>
    /\ handler_log = <<>>
    /\ ks_rets = <<>>
    /\ execs_left = MaxExecs
    /\ creates_left = MaxCreates

RetryNext ==
    /\ \/ kc_call
       \/ create_client
       \/ execute
       \/ handle_result
       \/ delay_elapsed
    /\ UNCHANGED <<migVars, sessVars, parseVars>>

RetrySpec == RetryInit /\ [][RetryNext]_vars

(* ================================ claims ============================== *)
IsPrefix(a, b) == Len(a) <= Len(b) /\ \A k \in 1..Len(a) : a[k] = b[k]

WrittenReqs == [k \in 1..Len(written) |-> written[k].req]

\* C1: the replies handle_session has written to the socket answer a prefix
\* of the requests it read, in the order it read them, whatever the batch
\* size and the order in which the back-ends completed the requests.
C1_RepliesInRequestOrder == IsPrefix(WrittenReqs, read_seq)

\* a later request of a batch completed before an earlier one, and the
\* replies of both are on the socket
C1_Witness ==
    /\ session_batch_buf >= 2
    /\ Len(written) >= 2
    /\ \E i, j \in 1..Len(done_order) :
         /\ i < j
         /\ done_order[i].req > done_order[j].req
         /\ \E k \in 1..Len(written) : written[k].req = done_order[i].req

Quiescent == \A p \in Procs : pc[p] \notin {"load_blocking", "enqueue", "recheck",
                                            "drain_store", "drain_recv", "drain_send"}

\* C2: on a task that is not stopped, once blocking is false and every
\* call of send and every drain_waiting_queue has returned, the waiting
\* queue is empty: no command that send queued is left behind.
C2_NoStrandedCommand ==
    (fut # "done" /\ ~blocking /\ Quiescent) => cmd_task_queue = <<>>

\* a command that was queued while the task drained was taken out by the
\* drain of the send call itself, and nothing is left
C2_Witness ==
    /\ fut # "done"
    /\ ~blocking
    /\ Quiescent
    /\ cmd_task_queue = <<>>
    /\ \E k \in 1..Len(handed) : handed[k].via = "drain_in_send"

Enqueues(s) == pc[s] = "enqueue" /\ pc'[s] = "recheck"

\* C3 as stated: a call of send made when the state is SwitchCommitted
\* never puts its command into the waiting queue.
C3_Original ==
    [][\A s \in Senders : Enqueues(s) => call_view[s].state # SwitchCommitted]_vars

\* C3 amended: a call of send made after drain_waiting_queue has set
\* blocking to false never puts its command into the waiting queue; it
\* hands the command to the destination sender or rejects it.
C3_NoEnqueueAfterUnblock ==
    [][\A s \in Senders : Enqueues(s) => call_view[s].blocking]_vars

\* a call made when blocking was false handed its command over directly
C3_Witness ==
    /\ state = SwitchCommitted
    /\ ~blocking
    /\ \E k \in 1..Len(handed) : handed[k].via = "send"

C5_Original ==
    (pc[RQ] = "fold") ~> (acked \/ fut = "done" \/ pc[RQ] \in {"redirecting", "done"})

\* C6 as stated: the importing task is never SwitchCommitted while the
\* migrating task of the same migration still is TransferringData.
C6_Original == ~(imp_state = SwitchCommitted /\ state = TransferringData)

\* C7 as stated: a migration whose replication check succeeded and whose
\* TMPSWITCH was acknowledged went through TransferringData, PreSwitch,
\* SwitchStarted, SwitchCommitted, in this order.
C7_Original == acked => state_trace = StateOrder

\* C8 as stated: until the replication check has seen the ready replica the
\* state is TransferringData and no command is in the waiting queue.
C8_Original ==
    fut = "check" => (state = TransferringData /\ cmd_task_queue = <<>>)

\* C9 as stated: after the first non-error reply to TMPSWITCH no further
\* TMPSWITCH is sent.
C9_Original == [][acked => tmpswitch_tick' = tmpswitch_tick]_vars

\* the step is a call of send by thread s: it takes the next command
Calls(s) ==
    /\ pc[s] = "idle"
    /\ cmds_left' = cmds_left - 1
    /\ (pc'[s] = "load_blocking" \/ ret'[s] # ret[s])

\* C10: a call of send in TransferringData, or with redirection_stopped,
\* returns SlotNotFound with the command it was given and leaves the
\* waiting queue, blocking, the state and the destination sender alone.
C10_SendRejected ==
    [][\A s \in Senders :
         (Calls(s) /\ (state = TransferringData \/ redirection_stopped)) =>
            /\ ret'[s] = [kind |-> "SlotNotFound", cmd |-> NextCmd]
            /\ pc'[s] = "idle"
            /\ UNCHANGED <<cmd_task_queue, blocking, state, handed>>]_vars

\* a call was rejected because the redirection had stopped
C10_Witness ==
    /\ redirection_stopped
    /\ state = SwitchCommitted
    /\ \E s \in Senders : ret[s].kind = "SlotNotFound" /\ ret[s].cmd = MaxCmds /\ pc[s] = "idle"

\* C11: once stop was called on a started migrating or importing task, or
\* the task was dropped, the future returned by start completes, and it
\* completes with Ok whatever phase it was in; it never completes with an
\* error.
C11_StopCompletesFuture ==
    /\ (fut = "done") ~> (fut_ret = "Ok")
    /\ (imp_fut = "done") ~> (imp_fut_ret = "Ok")
    /\ [](fut_ret \in {"none", "pending", "Ok"} /\ imp_fut_ret \in {"none", "pending", "Ok"})

\* the migrating task was stopped while its drain was running, the
\* importing task was dropped, and both futures completed with Ok
C11_Witness ==
    /\ api_ret = "Stopped"
    /\ fut_ret = "Ok"
    /\ ~blocking
    /\ state = SwitchCommitted
    /\ ~redirection_stopped
    /\ imp_ret = "Dropped"
    /\ imp_state = TransferringData
    /\ imp_fut_ret = "Ok"

\* C12: among the stop calls that follow one start of a task at most one
\* takes the signal sender, every other one returns AlreadyEnded and
\* changes nothing, and so does stop on a task that was never started.
C12_StopOneShot ==
    [][/\ taken' <= 1
       /\ imp_taken' <= 1
       /\ (api_ret' = "AlreadyEnded" /\ api_ret # "AlreadyEnded") =>
             (~stop_signal /\ UNCHANGED <<stop_signal, fut, fut_ret, taken, taskVars>>)
       /\ (api_ret' = "Stopped" /\ api_ret # "Stopped") =>
             (stop_signal /\ ~stop_signal' /\ taken = 0)
       /\ (imp_ret' = "AlreadyEnded" /\ imp_ret # "AlreadyEnded") =>
             (~imp_stop_signal
              /\ UNCHANGED <<imp_stop_signal, imp_fut, imp_fut_ret, imp_taken, imp_state>>)
       /\ (imp_ret' \in {"Stopped", "Canceled"} /\ imp_ret' # imp_ret) =>
             (imp_stop_signal /\ ~imp_stop_signal' /\ imp_taken = 0)]_vars

\* a second stop of both tasks returned AlreadyEnded after the first took
\* the sender
C12_Witness ==
    /\ api_ret = "AlreadyEnded"
    /\ taken = 1
    /\ imp_ret = "AlreadyEnded"
    /\ imp_taken = 1

\* C13: on a migrating task that is not stopped, once the waiting queue
\* has been drained redirection_stopped eventually becomes true, also when
\* every drained send failed; once true it stays true and every later call
\* of send returns SlotNotFound.
C13_RedirectionStops ==
    /\ (pc[RQ] = "redirecting") ~> (redirection_stopped \/ fut = "done")
    /\ [][redirection_stopped =>
            /\ redirection_stopped'
            /\ \A s \in Senders : Calls(s) => ret'[s].kind = "SlotNotFound"]_vars

\* every drained send failed, the redirection stopped, and the next call of
\* send was rejected
C13_Witness ==
    /\ redirection_stopped
    /\ fut # "done"
    /\ handed # <<>>
    /\ \A k \in 1..Len(handed) : handed[k].via = "drain" /\ ~handed[k].ok
    /\ \E s \in Senders : ret[s].kind = "SlotNotFound" /\ pc[s] = "idle"

\* the step is a call of ImportingTask::send
ImpSends == imp_cmds_left' = imp_cmds_left - 1

\* C14: ImportingTask::send hands every command to the sender of the source
\* proxy while the importing state is not SwitchCommitted; once it is
\* SwitchCommitted send hands over nothing and returns SlotNotFound with
\* the command.
C14_ImportingSend ==
    [][ImpSends =>
         IF imp_state = SwitchCommitted
         THEN /\ imp_ret' = "SlotNotFound"
              /\ imp_back' = ImpNextCmd
              /\ UNCHANGED <<imp_handed, imp_state>>
         ELSE /\ Len(imp_handed') = Len(imp_handed) + 1
              /\ imp_handed'[Len(imp_handed')].cmd = ImpNextCmd
              /\ imp_handed'[Len(imp_handed')].to = "src_proxy_address"
              /\ imp_ret' \in {"Forwarded", "MigrationError"}
              /\ UNCHANGED imp_state]_vars

\* a command was forwarded to the source proxy before the commit and the
\* next one was given back after it
C14_Witness ==
    /\ imp_state = SwitchCommitted
    /\ Len(imp_handed) = 1
    /\ imp_handed[1].cmd = 1
    /\ imp_ret = "SlotNotFound"
    /\ imp_back = 2

\* the step is a call of ImportingTask::commit
ImpCommits == Len(commit_trace') = Len(commit_trace) + 1

\* the switch_arg of that call
CommitVersion == commit_trace'[Len(commit_trace')].version

\* C15: ImportingTask::commit with a version other than
\* SERVER_PROXY_VERSION returns IncompatibleVersion and leaves the state
\* as it was; with the matching version it returns Ok and the state is
\* SwitchCommitted, also after a commit that was refused.
C15_CommitChecksVersion ==
    [][ImpCommits =>
         IF CommitVersion # SERVER_PROXY_VERSION
         THEN imp_ret' = "IncompatibleVersion" /\ imp_state' = imp_state
         ELSE imp_ret' = "Ok" /\ imp_state' = SwitchCommitted]_vars

\* a commit with the wrong version was refused and the next one, with the
\* matching version, succeeded
C15_Witness ==
    /\ Len(commit_trace) = 2
    /\ commit_trace[1] = [version |-> "0.3.9", ret |-> "IncompatibleVersion"]
    /\ commit_trace[2] = [version |-> SERVER_PROXY_VERSION, ret |-> "Ok"]
    /\ imp_state = SwitchCommitted

\* C16: ImportingTask::commit with a valid switch_arg on a task that is
\* SwitchCommitted already, by an earlier commit or by the timeout, returns
\* Ok and changes nothing else.
C16_CommitIdempotent ==
    [][(ImpCommits /\ CommitVersion = SERVER_PROXY_VERSION /\ imp_state = SwitchCommitted) =>
          /\ imp_ret' = "Ok"
          /\ UNCHANGED <<imp_state, imp_stop_signal, imp_fut, imp_fut_ret, imp_taken,
                         imp_handed, imp_back>>]_vars

\* the same valid commit twice on a running task
C16_Witness ==
    /\ Len(commit_trace) = 2
    /\ \A k \in 1..2 : commit_trace[k] = [version |-> SERVER_PROXY_VERSION, ret |-> "Ok"]
    /\ imp_state = SwitchCommitted
    /\ imp_fut = "timer"

\* C17: a started importing task that is not stopped and receives no
\* commit does not stay importing: the max_blocking_time timer makes its
\* state SwitchCommitted.
C17_ImportingTimesOut ==
    (imp_fut = "timer") ~> (imp_state = SwitchCommitted \/ ~imp_stop_signal)

\* the timer committed a task that no commit had reached
C17_Witness ==
    /\ imp_state = SwitchCommitted
    /\ commit_trace = <<>>
    /\ imp_stop_signal
    /\ imp_fut_ret = "Ok"

\* what became of the CmdCtx of a request, once it is gone
HowGone(i) == (CHOOSE k \in 1..Len(done_order) : done_order[k].req = i)

\* C18: the reply receiver paired with a CmdCtx resolves exactly once and
\* is not pending once the CmdCtx is gone: with the result given to
\* set_result, or with Dropped when the CmdCtx was destroyed without one.
C18_ReplyResolvesOnce ==
    /\ [](\A i \in 1..MaxReqs :
            /\ CtxGone(i) =>
                 reply_chan[i] = (IF done_order[HowGone(i)].how = "none" THEN "dropped"
                                  ELSE done_order[HowGone(i)].how)
            /\ reply_chan[i] \in Resolved => CtxGone(i)
            /\ Cardinality({k \in 1..Len(done_order) : done_order[k].req = i}) <= 1)
    /\ [][\A i \in 1..MaxReqs : reply_chan[i] \in Resolved => reply_chan'[i] = reply_chan[i]]_vars

\* one CmdCtx was destroyed without a result and one got an error result
C18_Witness ==
    /\ \E i \in 1..MaxReqs : reply_chan[i] = "dropped"
    /\ \E i \in 1..MaxReqs : reply_chan[i] = "err"
    /\ \E i \in 1..MaxReqs : reply_chan[i] = "ok"

\* C19: when the receiver of a request yields an error, handle_session
\* writes an error reply in the position of that request and goes on with
\* the other requests and the later batches; no session ends because of it.
C19_ErrorReplyInPlace ==
    /\ sess_ret \in {"none", "Ok", "Io", "Canceled", "InvalidState"}
    /\ \A k \in 1..Len(written) :
         /\ written[k].req = read_seq[k]
         /\ written[k].kind = (IF reply_chan[written[k].req] = "ok" THEN "ok" ELSE "err")
    /\ \A k \in 1..Len(replies) :
         replies[k].kind = (IF reply_chan[replies[k].req] = "ok" THEN "ok" ELSE "err")

\* the first request of a batch of two was dropped; its error reply, the
\* reply of the second request and the reply of a later batch are written
C19_Witness ==
    /\ session_batch_buf = 2
    /\ Len(written) = 3
    /\ reply_chan[1] = "dropped"
    /\ written[1] = [req |-> 1, kind |-> "err"]
    /\ written[2] = [req |-> 2, kind |-> "ok"]
    /\ written[3] = [req |-> 3, kind |-> "ok"]
    /\ sess_pc = "read"

\* C20 as stated: on malformed RESP handle_session ends the session with
\* SessionError::InvalidProtocol and dispatches nothing more.
C20_Original ==
    [][(sess_pc = "dispatch" /\ reqs # <<>> /\ Head(reqs).kind = "invalid_protocol") =>
          /\ sess_pc' = "returned"
          /\ sess_ret' = "InvalidProtocol"
          /\ UNCHANGED <<read_seq, reply_chan, reply_receiver_list>>]_vars

\* C21: within a batch handle_session dispatches every request before it
\* waits for a reply, and it writes no reply of the batch before the
\* receivers of all its requests have been awaited; the replies are then
\* written in request order by one send_all.
C21_BatchWrittenTogether ==
    /\ [][Len(replies') > Len(replies) => reqs = <<>>]_vars
    /\ [][written' # written =>
            /\ reply_receiver_list = <<>>
            /\ \A k \in 1..Len(replies) : reply_chan[replies[k].req] \in Resolved
            /\ \E k \in 1..Len(replies) : written' = written \o SubSeq(replies, 1, k)]_vars

\* both requests of a batch are dispatched, the second has its reply, the
\* first is still pending, and nothing of the batch is on the socket
C21_Witness ==
    /\ sess_pc = "await"
    /\ Len(reply_receiver_list) = 2
    /\ reply_chan[reply_receiver_list[1]] \notin Resolved
    /\ reply_chan[reply_receiver_list[2]] = "ok"
    /\ written = <<>>
    /\ replies = <<>>

\* C22 as stated: with lag_threshold = 0 the replication check completes
\* as soon as the parsed row of dst_node_address reports lag == 0.
C22_Original ==
    (/\ repl_answer # "none"
     /\ cfg_lag_threshold = 0
     /\ parse_result.kind = "rows"
     /\ \E i \in 1..Len(parse_result.states) :
          /\ parse_result.states[i].ip \o <<":">> \o to_string(parse_result.states[i].port)
               = dst_node_address
          /\ parse_result.states[i].lag = 0)
    => repl_answer = "Done"

\* C23 as stated: for a text whose lines all end with CRLF the parser
\* returns one ReplicaState per slave line, in line order, with the values
\* of the pairs of that line.
C23_Original ==
    (/\ repl_answer # "none"
     /\ info_reply.kind = "bulk"
     /\ info_reply.defect = "none"
     /\ info_reply.term = CRLF)
    => parse_result = [kind |-> "rows", states |-> info_reply.rows]

CallExecs(k) == SelectSeq(exec_log, LAMBDA e : e.call = k)

CallAnswers(k) == SelectSeq(handler_log, LAMBDA h : h.call = k)

OkResponses == {i \in 1..Len(exec_log) : exec_log[i].ok}

\* C25: keep_sending_cmd calls the handler once for each successful
\* response, in order, and returns at the first error of execute or of the
\* handler, with that error; it never returns Ok, and after n successes
\* and a failure of execute the handler has seen n responses.
C25_KeepSendingStopsAtFirstError ==
    /\ \A j \in 1..Len(handler_log) :
         /\ handler_log[j].resp \in OkResponses
         /\ Cardinality({i \in OkResponses : i <= handler_log[j].resp}) = j
    /\ Cardinality(OkResponses) - Len(handler_log) = (IF kc_pc = "handle" THEN 1 ELSE 0)
    /\ \A k \in 1..Len(ks_rets) :
         LET ex == CallExecs(k)
             hs == CallAnswers(k)
         IN /\ ks_rets[k] \in {"Closed", "Done", "Canceled"}
            /\ ex # <<>>
            /\ \A i \in 1..(Len(ex) - 1) : ex[i].ok
            /\ \A i \in 1..(Len(hs) - 1) : hs[i].ans = "Ok"
            /\ IF ex[Len(ex)].ok
               THEN /\ Len(hs) = Len(ex)
                    /\ hs[Len(hs)].ans = ks_rets[k]
               ELSE /\ Len(hs) = Len(ex) - 1
                    /\ \A i \in 1..Len(hs) : hs[i].ans = "Ok"
                    /\ ks_rets[k] = "Closed"

\* the client answered twice and failed at the third command: two calls
\* of the handler, the error of execute returned
C25_Witness ==
    /\ ks_rets = <<"Closed">>
    /\ Len(exec_log) = 3
    /\ Len(handler_log) = 2

\* C26: keep_connecting_and_sending_cmd returns exactly when the handler
\* has answered Done; after a failed creation or another error it waits
\* and goes on with a new client; no command is executed after Done.
C26_ReturnsOnlyOnDone ==
    /\ [](/\ kc_pc = "returned" <=>
               (handler_log # <<>> /\ handler_log[Len(handler_log)].ans = "Done")
          /\ \A j \in 1..Len(handler_log) :
               handler_log[j].ans = "Done" =>
                  /\ j = Len(handler_log)
                  /\ handler_log[j].resp = Len(exec_log)
                  /\ Cardinality(OkResponses) = j
          /\ \A i \in 1..Len(exec_log) :
               /\ exec_log[i].client = exec_log[i].call
               /\ exec_log[i].client >= 1)
    /\ [][/\ (Len(ks_rets') > Len(ks_rets) /\ ks_rets'[Len(ks_rets')] # "Done")
             => (kc_pc' = "retry_delay" /\ kc_client' = 0)
          /\ (creates_left' < creates_left /\ created' = created) => kc_pc' = "create_delay"
          /\ kc_pc \in {"create_delay", "retry_delay"} => kc_pc' = "connect"]_vars

\* a creation failed, the first client failed, the handler refused a reply
\* of the second, and the third got Done
C26_Witness ==
    /\ kc_pc = "returned"
    /\ created = 3
    /\ creates_left = MaxCreates - 4
    /\ ks_rets = <<"Closed", "Canceled", "Done">>

\* C27 as stated: drain_waiting_queue is executed by the release_queue
\* phase only, never by a thread inside send and never by two threads at
\* once.
C27_Original ==
    /\ \A s \in Senders : ~InDrain(s)
    /\ Cardinality({p \in Procs : InDrain(p)}) <= 1

\* C28: the release_queue phase does not begin the drain before
\* min_blocking_time has elapsed since the phase began (lasting_time is the
\* time waited plus one); until then blocking is true and no command has
\* been handed to the destination, whatever the state.
C28_HoldsMinBlockingTime ==
    /\ [][(pc[RQ] = "fold" /\ pc'[RQ] = "drain_store") =>
            lasting_time >= min_blocking_time + 1]_vars
    /\ [](pc[RQ] = "fold" => (blocking /\ handed = <<>>))

\* TMPSWITCH is acknowledged, a command waits in the queue and the phase
\* has not yet waited min_blocking_time
C28_Witness ==
    /\ pc[RQ] = "fold"
    /\ state = SwitchCommitted
    /\ acked
    /\ min_blocking_time >= 1
    /\ lasting_time = 0
    /\ cmd_task_queue # <<>>
    /\ blocking

Places(c) ==
    Cardinality({k \in 1..Len(cmd_task_queue) : cmd_task_queue[k] = c})
    + Cardinality({p \in Procs : held[p] = c})
    + Cardinality({k \in 1..Len(handed) : handed[k].cmd = c})

\* C29: drain_waiting_queue stores blocking = false before it takes a
\* command; every command it takes is handed to the destination sender
\* once, whether the send succeeds or fails, and is never put back; the
\* drain returns only when it found the queue empty.
C29_DrainHandsEachOnce ==
    /\ [](/\ \A c \in 1..MaxCmds : Places(c) <= 1
          /\ \A p \in Procs : pc[p] \in {"drain_recv", "drain_send"} => ~blocking)
    /\ [][\A p \in Procs :
            /\ (pc[p] = "drain_send" /\ pc'[p] # pc[p]) =>
                 /\ pc'[p] = "drain_recv"
                 /\ Len(handed') = Len(handed) + 1
                 /\ handed'[Len(handed')].cmd = held[p]
                 /\ cmd_task_queue' = cmd_task_queue
                 /\ held'[p] = NoCmd
            /\ (pc[p] = "drain_recv" /\ pc'[p] \notin {"drain_recv", "drain_send"}) =>
                 cmd_task_queue = <<>>]_vars

\* the send of the first command of the drain failed, the drain went on
\* and handed the next one over
C29_Witness ==
    /\ Len(handed) >= 2
    /\ handed[1].via = "drain" /\ ~handed[1].ok
    /\ handed[2].via = "drain" /\ handed[2].ok
    /\ cmd_task_queue = <<>>
    /\ \A p \in Procs : held[p] = NoCmd

\* C30: start on a migrating or importing task that is running returns
\* AlreadyStarted and changes nothing: the state, blocking,
\* redirection_stopped, the waiting queue, the installed stop signal and
\* the phases of the running future are as they were.
C30_RejectedStartChangesNothing ==
    /\ [][(stop_signal /\ api_ret' # api_ret /\ api_ret' \in {"Started", "AlreadyStarted"}) =>
            /\ api_ret' = "AlreadyStarted"
            /\ UNCHANGED <<state, blocking, redirection_stopped, cmd_task_queue, stop_signal,
                           fut, fut_ret, taken, pc, lasting_time, state_trace>>]_vars
    /\ [][(imp_stop_signal /\ imp_ret' # imp_ret /\ imp_ret' \in {"Started", "AlreadyStarted"}) =>
            /\ imp_ret' = "AlreadyStarted"
            /\ UNCHANGED <<imp_state, imp_stop_signal, imp_fut, imp_fut_ret, imp_taken>>]_vars

\* both running tasks refused a second start and run on
C30_Witness ==
    /\ api_ret = "AlreadyStarted"
    /\ stop_signal
    /\ fut = "switch"
    /\ fut_ret = "pending"
    /\ imp_ret = "AlreadyStarted"
    /\ imp_stop_signal
    /\ imp_fut_ret = "pending"

\* C31 as stated: a command that send forwards directly, in a call made
\* when blocking was already false, reaches the destination sender after
\* every command that was buffered before: none is still in the waiting
\* queue or in the hands of a drain at that moment.
C31_Original ==
    [][\A s \in Senders :
         (/\ pc[s] = "load_blocking"
          /\ pc'[s] = "idle"
          /\ Len(handed') > Len(handed)
          /\ ~call_view[s].blocking)
         => /\ cmd_task_queue = <<>>
            /\ \A p \in Procs : held[p] = NoCmd]_vars

\* C32 as stated: whenever the migrating task hands a command to the
\* destination proxy, the running importing task of the same meta is
\* SwitchCommitted.
C32_Original ==
    [][(Len(handed') > Len(handed) /\ imp_stop_signal) => imp_state = SwitchCommitted]_vars

\* C33 as stated: a call of send made after stop, on a task whose blocking
\* is true and whose queue no thread is draining, does not go on to put its
\* command into the waiting queue.
C33_Original ==
    [][\A s \in Senders :
         (/\ Calls(s)
          /\ fut = "done"
          /\ api_ret = "Stopped"
          /\ blocking
          /\ \A p \in Procs : ~InDrain(p))
         => pc'[s] # "load_blocking"]_vars

====
